---- MODULE Spec2Model ----
(***************************************************************************)
(* Model of the deterministic core of fx-release-analyzer.py:              *)
(*   FirefoxReleaseInfo.get_release_tags  (release boundary resolution)    *)
(*   GitAnalyzer._parse_git_log           (log text -> Commit records)     *)
(*   GitAnalyzer._extract_bug_ids         (text -> bug identifiers)        *)
(* Python strings are sequences of one-character strings; Python ints are  *)
(* integers; None is the empty tuple and a present value v is <<v>>.       *)
(***************************************************************************)
EXTENDS Integers, Sequences, FiniteSets, TLC

VARIABLES
    \* get_release_tags
    rpc,            \* position in get_release_tags
    version,        \* argument: the version string
    tags,           \* the list returned by git tag -l, after strip/split
    target_tag,     \* local target_tag
    prev_version,   \* local prev_version
    end_tag,        \* local end_tag (None or <<tag>>)
    start_tag,      \* local start_tag (None or <<tag>>)
    outcome,        \* how the call ended: "none", "return", or the exception
    \* _extract_bug_ids
    epc,            \* position in _extract_bug_ids
    message,        \* argument: the commit message
    pattern_idx,    \* number of patterns already applied (the for loop of line 374)
    bug_ids,        \* local bug_ids
    bug_result,     \* the returned list
    \* _parse_git_log
    ppc,            \* position in _parse_git_log
    text,           \* argument: the output of git log
    lines,          \* local lines
    i,              \* local i, counted from 1
    commits,        \* local commits
    cur,            \* the record being built by lines 321-348 (None or <<record>>)
    pass,           \* 1: parsing the input, 2: parsing the re-serialized records
    first,          \* the records of pass 1
    \* _prioritize_bugs
    spc,            \* position in _prioritize_bugs
    bugs_markdown,  \* argument: the list of bug records
    keys,           \* the values of bug_priority_score, one per record scored so far
    prioritized,    \* the returned list
    \* _analyze_commit_patterns
    apc,            \* position in _analyze_commit_patterns
    commit_list,    \* argument commits: the list of commit records
    commit_idx,     \* number of commits the loop of line 452 has taken
    stats,          \* local stats (None or <<dict>>)
    \* analyze_release and get_commits_for_release
    fpc,            \* position in analyze_release
    release_commits,        \* what get_commits_for_release returned
    bug_ids_from_commits,   \* local bug_ids_from_commits
    release_bugs,   \* the ids of the bugs handed to the report
    result          \* how analyze_release ended: "none" or "report"

resolveVars == <<rpc, version, tags, target_tag, prev_version, end_tag, start_tag, outcome>>
extractVars == <<epc, message, pattern_idx, bug_ids, bug_result>>
parseVars == <<ppc, text, lines, i, commits, cur, pass, first>>
prioVars == <<spc, bugs_markdown, keys, prioritized>>
aggVars == <<apc, commit_list, commit_idx, stats>>
pipeVars == <<fpc, release_commits, bug_ids_from_commits, release_bugs, result>>
analysisVars == <<prioVars, aggVars, pipeVars>>
vars == <<resolveVars, extractVars, parseVars, analysisVars>>

(***************************************************************************)
(* Bounds of the model                                                     *)
(***************************************************************************)
MaxParts == 3
MaxTags == 2
MaxPieces == 4
MaxLines == 3
MaxBugs == 2
MaxScanLines == 2

\* the functions that are not running
IdleResolve ==
    /\ rpc = "idle"
    /\ version = << >>
    /\ tags = << >>
    /\ target_tag = << >>
    /\ prev_version = << >>
    /\ end_tag = << >>
    /\ start_tag = << >>
    /\ outcome = "none"
IdleExtract ==
    /\ epc = "idle"
    /\ message = << >>
    /\ pattern_idx = 0
    /\ bug_ids = << >>
    /\ bug_result = << >>
IdleParse ==
    /\ ppc = "idle"
    /\ text = << >>
    /\ lines = << >>
    /\ i = 1
    /\ commits = << >>
    /\ cur = << >>
    /\ pass = 1
    /\ first = << >>
IdlePrioritize ==
    /\ spc = "idle"
    /\ bugs_markdown = << >>
    /\ keys = << >>
    /\ prioritized = << >>
IdleAggregate ==
    /\ apc = "idle"
    /\ commit_list = << >>
    /\ commit_idx = 0
    /\ stats = << >>
IdlePipeline ==
    /\ fpc = "idle"
    /\ release_commits = << >>
    /\ bug_ids_from_commits = {}
    /\ release_bugs = {}
    /\ result = "none"
IdleAnalysis == IdlePrioritize /\ IdleAggregate /\ IdlePipeline

(***************************************************************************)
(* Python string and integer primitives                                    *)
(***************************************************************************)
None == << >>
Some(v) == <<v>>

DigitChars == <<"0", "1", "2", "3", "4", "5", "6", "7", "8", "9">>
IsDigit(c) == \E d \in 1..10 : DigitChars[d] = c
DigitVal(c) == (CHOOSE d \in 1..10 : DigitChars[d] = c) - 1
IsSpace(c) == c \in {" ", "\t", "\n", "\r"}

\* sub in s
Contains(sub, s) ==
    \E k \in 1..(Len(s) - Len(sub) + 1) : SubSeq(s, k, k + Len(sub) - 1) = sub

\* index of the first occurrence of the character c in s, 0 if there is none
IndexOf(c, s) ==
    IF \E k \in 1..Len(s) : s[k] = c
    THEN CHOOSE k \in 1..Len(s) : s[k] = c /\ \A j \in 1..(k - 1) : s[j] # c
    ELSE 0

\* s.split(sep, maxsplit) for a one-character sep; maxsplit = -1: no limit
RECURSIVE Split(_, _, _)
Split(s, sep, maxsplit) ==
    LET k == IndexOf(sep, s)
    IN  IF k = 0 \/ maxsplit = 0
        THEN <<s>>
        ELSE <<SubSeq(s, 1, k - 1)>> \o Split(SubSeq(s, k + 1, Len(s)), sep, maxsplit - 1)

\* s.strip(): drop leading and trailing whitespace
RECURSIVE LStrip(_)
LStrip(s) == IF s # << >> /\ IsSpace(s[1]) THEN LStrip(Tail(s)) ELSE s
RECURSIVE RStrip(_)
RStrip(s) == IF s # << >> /\ IsSpace(s[Len(s)]) THEN RStrip(SubSeq(s, 1, Len(s) - 1)) ELSE s
Strip(s) == RStrip(LStrip(s))

\* the lines of a text joined by newlines
RECURSIVE JoinLines(_)
JoinLines(ls) ==
    IF ls = << >> THEN << >>
    ELSE IF Len(ls) = 1 THEN ls[1]
    ELSE ls[1] \o <<"\n">> \o JoinLines(Tail(ls))

\* value of a string of digits and single underscores (as int() reads it)
RECURSIVE DigitsValue(_)
DigitsValue(s) ==
    IF s = << >> THEN 0
    ELSE IF s[Len(s)] = "_" THEN DigitsValue(SubSeq(s, 1, Len(s) - 1))
    ELSE DigitsValue(SubSeq(s, 1, Len(s) - 1)) * 10 + DigitVal(s[Len(s)])

\* int(s): [ok |-> FALSE] stands for ValueError
IsIntBody(b) ==
    /\ b # << >>
    /\ IsDigit(b[1]) /\ IsDigit(b[Len(b)])
    /\ \A k \in 1..Len(b) : IsDigit(b[k]) \/ b[k] = "_"
    /\ \A k \in 1..(Len(b) - 1) : ~(b[k] = "_" /\ b[k + 1] = "_")
PyInt(s) ==
    LET t == Strip(s)
        signed == t # << >> /\ t[1] \in {"+", "-"}
        body == IF signed THEN Tail(t) ELSE t
    IN  IF IsIntBody(body)
        THEN [ok |-> TRUE,
              val |-> IF signed /\ t[1] = "-" THEN 0 - DigitsValue(body) ELSE DigitsValue(body)]
        ELSE [ok |-> FALSE, val |-> 0]

\* str(n) for an int n, as an f-string formats it
RECURSIVE NatStr(_)
NatStr(n) == IF n < 10 THEN <<DigitChars[n + 1]>> ELSE NatStr(n \div 10) \o <<DigitChars[(n % 10) + 1]>>
PyStr(n) == IF n < 0 THEN <<"-">> \o NatStr(0 - n) ELSE NatStr(n)

(***************************************************************************)
(* Inputs of get_release_tags                                              *)
(***************************************************************************)
FIREFOX == <<"F", "I", "R", "E", "F", "O", "X">>
RELEASE == <<"R", "E", "L", "E", "A", "S", "E">>

\* f"FIREFOX_{a}_{b}_RELEASE" and f"FIREFOX_{a}_{b}_{c}_RELEASE"
Tag2(a, b) == FIREFOX \o <<"_">> \o a \o <<"_">> \o b \o <<"_">> \o RELEASE
Tag3(a, b, c) == FIREFOX \o <<"_">> \o a \o <<"_">> \o b \o <<"_">> \o c \o <<"_">> \o RELEASE

V131 == <<"1", "3", "1">>
V130 == <<"1", "3", "0">>
V0 == <<"0">>
V1 == <<"1">>
Va == <<"a">>

\* the '.'-separated tokens versions are built from (numeric, non-numeric, empty)
VersionParts == {V131, V0, V1, Va, << >>}

RECURSIVE JoinDots(_)
JoinDots(ps) == IF Len(ps) = 1 THEN ps[1] ELSE ps[1] \o <<".">> \o JoinDots(Tail(ps))

RECURSIVE SeqsUpTo(_, _)
SeqsUpTo(S, n) ==
    IF n = 0 THEN {<< >>}
    ELSE LET shorter == SeqsUpTo(S, n - 1)
         IN  shorter \cup {<<x>> \o q : x \in S, q \in {r \in shorter : Len(r) = n - 1}}

Versions == {JoinDots(ps) : ps \in (SeqsUpTo(VersionParts, MaxParts) \ {<< >>})}

\* tag names git can list: release tags, a vendor-suffixed and a
\* vendor-prefixed one, a point release, and the empty line of an empty listing
TagPool ==
    { Tag2(V131, V0), Tag2(V130, V0),
      Tag2(V131, V0) \o <<"x">>, <<"v">> \o Tag2(V130, V0),
      Tag2(V131, V1), Tag3(V131, V0, V1),
      Tag2(Va, V1), << >> }

\* line 55: the listing printed by git tag -l, stripped and split into lines
TagLists == {Split(Strip(JoinLines(ts)), "\n", -1) : ts \in SeqsUpTo(TagPool, MaxTags)}

(***************************************************************************)
(* FirefoxReleaseInfo.get_release_tags                                     *)
(***************************************************************************)
\* ParsedVersion without the special case of minor "0" (line 72)
ParsedVersionNoMajorStep(v) ==
    LET version_parts == Split(v, ".", -1)
    IN  IF Len(version_parts) >= 3
        THEN [err |-> FALSE,
              target_tag |-> Tag3(version_parts[1], version_parts[2], version_parts[3]),
              prev_version |-> version_parts[1] \o <<".">> \o version_parts[2]]
        ELSE IF Len(version_parts) = 2
        THEN [err |-> ~PyInt(version_parts[2]).ok,
              target_tag |-> Tag2(version_parts[1], version_parts[2]),
              prev_version |-> version_parts[1] \o <<".">> \o PyStr(PyInt(version_parts[2]).val - 1)]
        ELSE [err |-> ~PyInt(v).ok,
              target_tag |-> Tag2(v, <<"0">>),
              prev_version |-> PyStr(PyInt(v).val - 1) \o <<".", "0">>]

\* lines 58-80: target_tag and prev_version from the version string;
\* err is the ValueError of int() on a non-numeric token
ParsedVersion(v) ==
    LET version_parts == Split(v, ".", -1)
    IN  IF Len(version_parts) >= 3
        THEN [err |-> FALSE,
              target_tag |-> Tag3(version_parts[1], version_parts[2], version_parts[3]),
              prev_version |-> version_parts[1] \o <<".">> \o version_parts[2]]
        ELSE IF Len(version_parts) = 2
        THEN LET major == version_parts[1]
                 minor == version_parts[2]
             IN  IF minor = <<"0">>
                 THEN [err |-> ~PyInt(major).ok,
                       target_tag |-> Tag2(major, minor),
                       prev_version |-> PyStr(PyInt(major).val - 1) \o <<".", "0">>]
                 ELSE [err |-> ~PyInt(minor).ok,
                       target_tag |-> Tag2(major, minor),
                       prev_version |-> major \o <<".">> \o PyStr(PyInt(minor).val - 1)]
        ELSE [err |-> ~PyInt(v).ok,
              target_tag |-> Tag2(v, <<"0">>),
              prev_version |-> PyStr(PyInt(v).val - 1) \o <<".", "0">>]

\* FindEndTag without the break of line 87: the last matching tag wins
FindEndTagLast(ts, target) ==
    LET hits == {k \in 1..Len(ts) : Contains(target, ts[k])}
    IN  IF hits = {} THEN None
        ELSE Some(ts[CHOOSE k \in hits : \A j \in hits : j <= k])

\* lines 83-87: the first tag that contains target_tag
RECURSIVE FindEndTag(_, _)
FindEndTag(ts, target) ==
    IF ts = << >> THEN None
    ELSE IF Contains(target, ts[1]) THEN Some(ts[1])
    ELSE FindEndTag(Tail(ts), target)

\* "if not x" for x a string or None
Falsy(opt) == opt = None \/ opt[1] = << >>

\* lines 93-104: the patterns tried for the previous release
PrevPatterns(prev) ==
    LET prev_parts == Split(prev, ".", -1)
    IN  IF Len(prev_parts) = 2
        THEN <<Tag2(prev_parts[1], prev_parts[2])>>
        ELSE IF Len(prev_parts) >= 3
        THEN <<Tag3(prev_parts[1], prev_parts[2], prev_parts[3]),
               Tag2(prev_parts[1], prev_parts[2])>>
        ELSE << >>

\* FindExact with the substring test of line 85 in place of == (line 109)
FindExactSubstring(ts, pattern) ==
    LET hits == {k \in 1..Len(ts) : Contains(pattern, ts[k])}
    IN  IF hits = {} THEN None
        ELSE Some(ts[CHOOSE k \in hits : \A j \in hits : k <= j])

\* lines 108-111: the first tag equal to the pattern
RECURSIVE FindExact(_, _)
FindExact(ts, pattern) ==
    IF ts = << >> THEN None
    ELSE IF ts[1] = pattern THEN Some(ts[1])
    ELSE FindExact(Tail(ts), pattern)

\* lines 107-113: patterns in order, stopping at the first that has a tag
RECURSIVE FindStartTag(_, _)
FindStartTag(patterns, ts) ==
    IF patterns = << >> THEN None
    ELSE LET found == FindExact(ts, patterns[1])
         IN  IF ~Falsy(found) THEN found ELSE FindStartTag(Tail(patterns), ts)

InitResolve ==
    /\ rpc = "parse_version"
    /\ version \in Versions
    /\ tags \in TagLists
    /\ target_tag = << >>
    /\ prev_version = << >>
    /\ end_tag = None
    /\ start_tag = None
    /\ outcome = "none"
    /\ epc = "idle"
    /\ message = << >>
    /\ pattern_idx = 0
    /\ bug_ids = << >>
    /\ bug_result = << >>
    /\ ppc = "idle"
    /\ text = << >>
    /\ lines = << >>
    /\ i = 1
    /\ commits = << >>
    /\ cur = None
    /\ pass = 1
    /\ first = << >>
    /\ IdleAnalysis

\* lines 57-80
ParseVersion ==
    /\ rpc = "parse_version"
    /\ LET p == ParsedVersion(version)
       IN  /\ target_tag' = p.target_tag
           /\ IF p.err
              THEN /\ outcome' = "InvalidVersion"
                   /\ rpc' = "done"
                   /\ UNCHANGED prev_version
              ELSE /\ prev_version' = p.prev_version
                   /\ rpc' = "find_end"
                   /\ UNCHANGED outcome
    /\ UNCHANGED <<version, tags, end_tag, start_tag, extractVars, parseVars, analysisVars>>

\* lines 82-90
FindEnd ==
    /\ rpc = "find_end"
    /\ end_tag' = FindEndTag(tags, target_tag)
    /\ IF Falsy(end_tag')
       THEN outcome' = "UnresolvableVersion" /\ rpc' = "done"
       ELSE rpc' = "find_start" /\ UNCHANGED outcome
    /\ UNCHANGED <<version, tags, target_tag, prev_version, start_tag, extractVars, parseVars, analysisVars>>

\* lines 92-120
FindStart ==
    /\ rpc = "find_start"
    /\ start_tag' = FindStartTag(PrevPatterns(prev_version), tags)
    /\ outcome' = "return"
    /\ rpc' = "done"
    /\ UNCHANGED <<version, tags, target_tag, prev_version, end_tag, extractVars, parseVars, analysisVars>>

NextResolve == ParseVersion \/ FindEnd \/ FindStart

SpecResolve == InitResolve /\ [][NextResolve]_vars

(***************************************************************************)
(* GitAnalyzer._extract_bug_ids                                            *)
(***************************************************************************)
\* line 379: the range of a plausible bug id; line 371: \d{6,}
MinBugId == 100000
MaxBugId == 9999999
MinBareDigits == 6

\* lines 368-372, in order
Patterns == <<"bug", "hash", "bare">>

\* the end of the run of digits that starts at k (k - 1 when m[k] is no digit)
RECURSIVE DigitRunEnd(_, _)
DigitRunEnd(m, k) ==
    IF k <= Len(m) /\ IsDigit(m[k]) THEN DigitRunEnd(m, k + 1) ELSE k - 1

CharAt(m, k) == IF k <= Len(m) THEN m[k] ELSE ""

\* one attempt of re to match the pattern at position k: the captured group
\* is m[from..to]; a quantifier takes the whole run of digits (greedy)
MatchAt(pat, m, k) ==
    IF pat = "bug"
    THEN [ok |-> /\ CharAt(m, k) \in {"B", "b"}
                 /\ CharAt(m, k + 1) = "u"
                 /\ CharAt(m, k + 2) = "g"
                 /\ CharAt(m, k + 3) = " "
                 /\ IsDigit(CharAt(m, k + 4)),
          from |-> k + 4, to |-> DigitRunEnd(m, k + 4)]
    ELSE IF pat = "hash"
    THEN [ok |-> CharAt(m, k) = "#" /\ IsDigit(CharAt(m, k + 1)),
          from |-> k + 1, to |-> DigitRunEnd(m, k + 1)]
    ELSE [ok |-> DigitRunEnd(m, k) - k + 1 >= MinBareDigits,
          from |-> k, to |-> DigitRunEnd(m, k)]

\* re.findall(pattern, message) from position k on: leftmost matches, not
\* overlapping, the scan resuming after the end of each match
RECURSIVE FindAll(_, _, _)
FindAll(pat, m, k) ==
    IF k > Len(m) THEN << >>
    ELSE LET r == MatchAt(pat, m, k)
         IN  IF r.ok
             THEN <<SubSeq(m, r.from, r.to)>> \o FindAll(pat, m, r.to + 1)
             ELSE FindAll(pat, m, k + 1)

\* AppendInRange without the lower end of the range
RECURSIVE AppendBelowMax(_, _)
AppendBelowMax(ids, matches) ==
    IF matches = << >> THEN ids
    ELSE LET n == PyInt(matches[1])
         IN  AppendBelowMax(
                 IF n.ok /\ n.val <= MaxBugId THEN Append(ids, n.val) ELSE ids,
                 Tail(matches))

\* lines 376-382: the in-range values of the matches, appended in order
RECURSIVE AppendInRange(_, _)
AppendInRange(ids, matches) ==
    IF matches = << >> THEN ids
    ELSE LET n == PyInt(matches[1])
         IN  AppendInRange(
                 IF n.ok /\ MinBugId <= n.val /\ n.val <= MaxBugId
                 THEN Append(ids, n.val) ELSE ids,
                 Tail(matches))

\* lines 367-382: bug_ids when the loop over the patterns is over
RECURSIVE BugIdsAfter(_, _)
BugIdsAfter(m, n) ==
    IF n = 0 THEN << >>
    ELSE AppendInRange(BugIdsAfter(m, n - 1), FindAll(Patterns[n], m, 1))

\* line 384 without set(): the list as accumulated
ListOfIds(ids) == {ids}

\* line 384: list(set(ids)); the order of the list is the iteration order
\* of the set, which Python leaves open
ListsOfSet(ids) ==
    LET S == {ids[k] : k \in 1..Len(ids)}
    IN  {l \in [1..Cardinality(S) -> S] : \A a, b \in 1..Cardinality(S) : a # b => l[a] # l[b]}

\* the texts messages are built from
MessagePieces ==
    { <<"B", "u", "g", " ", "1", "2", "3", "4", "5", "6", "7">>,
      <<" ", "a", "n", "d", " ">>,
      <<"b", "u", "g", " ", "4", "2">>,
      <<"s", "e", "e", " ">>,
      <<"#", "1", "5", "0", "0", "0", "0", "0">>,
      <<"1", "5", "0", "0", "0", "0", "0">>,
      <<"B", "u", "g", " ", "9", "9", "9", "9", "9">>,
      <<"1", "2", "3", "4", "5", "6", "7", "8">> }

RECURSIVE Concat(_)
Concat(ps) == IF ps = << >> THEN << >> ELSE ps[1] \o Concat(Tail(ps))

LongestDigitRun(m) ==
    LET runs == {DigitRunEnd(m, k) - k + 1 : k \in 1..Len(m)}
    IN  IF runs = {} THEN 0 ELSE CHOOSE n \in runs : \A r \in runs : r <= n

\* runs of more than 9 digits are left out: their value is above MaxBugId
\* whatever the digits are
Messages ==
    {m \in {Concat(ps) : ps \in SeqsUpTo(MessagePieces, MaxPieces)} : LongestDigitRun(m) <= 9}

InitExtract ==
    /\ epc = "patterns"
    /\ message \in Messages
    /\ pattern_idx = 0
    /\ bug_ids = << >>
    /\ bug_result = << >>
    /\ rpc = "idle"
    /\ version = << >>
    /\ tags = << >>
    /\ target_tag = << >>
    /\ prev_version = << >>
    /\ end_tag = None
    /\ start_tag = None
    /\ outcome = "none"
    /\ ppc = "idle"
    /\ text = << >>
    /\ lines = << >>
    /\ i = 1
    /\ commits = << >>
    /\ cur = None
    /\ pass = 1
    /\ first = << >>
    /\ IdleAnalysis

\* lines 374-382: one iteration of "for pattern in patterns"
ApplyPattern ==
    /\ epc = "patterns"
    /\ pattern_idx < Len(Patterns)
    /\ pattern_idx' = pattern_idx + 1
    /\ bug_ids' = AppendInRange(bug_ids, FindAll(Patterns[pattern_idx + 1], message, 1))
    /\ UNCHANGED <<epc, message, bug_result, resolveVars, parseVars, analysisVars>>

\* line 384
ReturnBugIds ==
    /\ epc = "patterns"
    /\ pattern_idx = Len(Patterns)
    /\ bug_result' \in ListsOfSet(bug_ids)
    /\ epc' = "done"
    /\ UNCHANGED <<message, pattern_idx, bug_ids, resolveVars, parseVars, analysisVars>>

NextExtract == ApplyPattern \/ ReturnBugIds

SpecExtract == InitExtract /\ [][NextExtract]_vars

(***************************************************************************)
(* GitAnalyzer._parse_git_log                                              *)
(***************************************************************************)
\* lines of git log output: headers (one with '|' in the summary and a bug
\* id, one with blanks around it, one with a tab), an undersized header,
\* numstat lines (plain, binary, signed, malformed, short, with '|' in the
\* path, with an empty path) and the empty line
LinePool ==
    { <<"h", "|", "a", "|", "d", "|", "s">>,
      <<"g", "|", "b", "|", "e", "|", "s", "|", "1", "2", "3", "4", "5", "6">>,
      <<"p", "|", "q">>,
      <<"1", "\t", "2", "\t", "f">>,
      <<"-", "\t", "-", "\t", "b">>,
      <<"-", "5", "\t", "3", "\t", "n">>,
      <<"7", "\t", "x", "\t", "m">>,
      <<"4", "\t", "4">>,
      <<"2", "\t", "0", "\t", "u", "|", "v", "|", "w", "|", "z">>,
      <<>>,
      <<" ", "k", "|", "a", "|", "d", "|", "s", " ">>,
      <<"h", "\t", "x", "|", "a", "|", "d", "|", "s">>,
      <<"1", "\t", "2", "\t">> }

Texts == {JoinLines(ls) : ls \in SeqsUpTo(LinePool, MaxLines)}

HasChar(c, l) == \E k \in 1..Len(l) : l[k] = c

\* line 319, with its maxsplit of 3 dropped
HeaderPartsUnlimited(l) == Split(l, "|", -1)

\* line 319
HeaderParts(l) == Split(l, "|", 3)

\* IsHeader without the test of line 320
IsHeaderAnyBar(l) == HasChar("|", l)

\* lines 317, 320: the line starts a record
IsHeader(l) == HasChar("|", l) /\ Len(HeaderParts(l)) >= 4

\* lines 321-333: the record as it is when the statistics loop begins
NewCommit(l, ids) ==
    [hash |-> HeaderParts(l)[1], author |-> HeaderParts(l)[2],
     date |-> HeaderParts(l)[3], message |-> HeaderParts(l)[4],
     files_changed |-> << >>, insertions |-> 0, deletions |-> 0,
     bug_ids |-> ids]

\* int(x) if x != '-' else 0
CountOf(x) == IF x # <<"-">> THEN PyInt(x) ELSE [ok |-> TRUE, val |-> 0]

\* ApplyStatLine adding to insertions before the second int() can raise
ApplyStatLinePartial(c, l) ==
    LET parts == Split(l, "\t", -1)
    IN  IF Len(parts) >= 3 /\ CountOf(parts[1]).ok
        THEN IF CountOf(parts[2]).ok
             THEN [c EXCEPT !.insertions = @ + CountOf(parts[1]).val,
                            !.deletions = @ + CountOf(parts[2]).val,
                            !.files_changed = Append(@, parts[3])]
             ELSE [c EXCEPT !.insertions = @ + CountOf(parts[1]).val]
        ELSE c

\* ApplyStatLine with the two counts exchanged
ApplyStatLineSwapped(c, l) ==
    LET parts == Split(l, "\t", -1)
    IN  IF Len(parts) >= 3 /\ CountOf(parts[1]).ok /\ CountOf(parts[2]).ok
        THEN [c EXCEPT !.insertions = @ + CountOf(parts[2]).val,
                       !.deletions = @ + CountOf(parts[1]).val,
                       !.files_changed = Append(@, parts[3])]
        ELSE c

\* ApplyStatLine without the '-' placeholder: int('-') raises, line skipped
ApplyStatLineNoPlaceholder(c, l) ==
    LET parts == Split(l, "\t", -1)
    IN  IF Len(parts) >= 3 /\ PyInt(parts[1]).ok /\ PyInt(parts[2]).ok
        THEN [c EXCEPT !.insertions = @ + PyInt(parts[1]).val,
                       !.deletions = @ + PyInt(parts[2]).val,
                       !.files_changed = Append(@, parts[3])]
        ELSE c

\* lines 336-347: one statistics line applied to the record; both int()
\* calls come before the first update, a ValueError of either leaves the
\* record as it was
ApplyStatLine(c, l) ==
    LET parts == Split(l, "\t", -1)
    IN  IF Len(parts) >= 3 /\ CountOf(parts[1]).ok /\ CountOf(parts[2]).ok
        THEN [c EXCEPT !.insertions = @ + CountOf(parts[1]).val,
                       !.deletions = @ + CountOf(parts[2]).val,
                       !.files_changed = Append(@, parts[3])]
        ELSE c

\* the statistics lines of a record written back: the totals on the line
\* of the first path, 0 and 0 on the others
RECURSIVE StatLinesOf(_, _)
StatLinesOf(c, k) ==
    IF k > Len(c.files_changed) THEN << >>
    ELSE << (IF k = 1 THEN PyStr(c.insertions) ELSE <<"0">>) \o <<"\t">>
            \o (IF k = 1 THEN PyStr(c.deletions) ELSE <<"0">>) \o <<"\t">>
            \o c.files_changed[k] >>
         \o StatLinesOf(c, k + 1)

HeaderLineOf(c) == c.hash \o <<"|">> \o c.author \o <<"|">> \o c.date \o <<"|">> \o c.message

RECURSIVE SerializedLines(_)
SerializedLines(cs) ==
    IF cs = << >> THEN << >>
    ELSE <<HeaderLineOf(cs[1])>> \o StatLinesOf(cs[1], 1) \o SerializedLines(Tail(cs))

Serialize(cs) == JoinLines(SerializedLines(cs))

InitParse ==
    /\ ppc = "start"
    /\ text \in Texts
    /\ lines = << >>
    /\ i = 1
    /\ commits = << >>
    /\ cur = None
    /\ pass = 1
    /\ first = << >>
    /\ rpc = "idle"
    /\ version = << >>
    /\ tags = << >>
    /\ target_tag = << >>
    /\ prev_version = << >>
    /\ end_tag = None
    /\ start_tag = None
    /\ outcome = "none"
    /\ epc = "idle"
    /\ message = << >>
    /\ pattern_idx = 0
    /\ bug_ids = << >>
    /\ bug_result = << >>
    /\ IdleAnalysis

\* lines 312-314
ParseBegin ==
    /\ ppc = "start"
    /\ commits' = << >>
    /\ lines' = Split(Strip(text), "\n", -1)
    /\ i' = 1
    /\ ppc' = "outer"
    /\ UNCHANGED <<text, cur, pass, first, resolveVars, extractVars, analysisVars>>

\* lines 316-320, 361: a line that starts no record is passed over
SkipLine ==
    /\ ppc = "outer"
    /\ i <= Len(lines)
    /\ ~IsHeader(lines[i])
    /\ i' = i + 1
    /\ UNCHANGED <<ppc, text, lines, commits, cur, pass, first, resolveVars, extractVars, analysisVars>>

\* lines 316-333: a header line opens a record; parts[3] of fewer than 4
\* parts is an IndexError, which nothing in the function catches
StartRecord ==
    /\ ppc = "outer"
    /\ i <= Len(lines)
    /\ IsHeader(lines[i])
    /\ IF Len(HeaderParts(lines[i])) >= 4
       THEN /\ \E ids \in ListsOfSet(BugIdsAfter(HeaderParts(lines[i])[4], Len(Patterns))) :
                   cur' = Some(NewCommit(lines[i], ids))
            /\ i' = i + 1
            /\ ppc' = "inner"
       ELSE /\ ppc' = "raised"
            /\ UNCHANGED <<i, cur>>
    /\ UNCHANGED <<text, lines, commits, pass, first, resolveVars, extractVars, analysisVars>>

\* lines 335-348: one turn of the statistics loop
StatLine ==
    /\ ppc = "inner"
    /\ i <= Len(lines)
    /\ HasChar("\t", lines[i])
    /\ cur' = Some(ApplyStatLine(cur[1], lines[i]))
    /\ i' = i + 1
    /\ UNCHANGED <<ppc, text, lines, commits, pass, first, resolveVars, extractVars, analysisVars>>

\* lines 335, 350-360: the statistics loop ends and the record is appended
EmitRecord ==
    /\ ppc = "inner"
    /\ ~(i <= Len(lines) /\ HasChar("\t", lines[i]))
    /\ commits' = Append(commits, cur[1])
    /\ cur' = None
    /\ ppc' = "outer"
    /\ UNCHANGED <<text, lines, i, pass, first, resolveVars, extractVars, analysisVars>>

\* lines 316, 363
ParseReturn ==
    /\ ppc = "outer"
    /\ i > Len(lines)
    /\ ppc' = "done"
    /\ UNCHANGED <<text, lines, i, commits, cur, pass, first, resolveVars, extractVars, analysisVars>>

\* the returned records are written back as log text and parsed again
Reserialize ==
    /\ ppc = "done"
    /\ pass = 1
    /\ first' = commits
    /\ text' = Serialize(commits)
    /\ pass' = 2
    /\ ppc' = "start"
    /\ UNCHANGED <<lines, i, commits, cur, resolveVars, extractVars, analysisVars>>

ParseStep == ParseBegin \/ SkipLine \/ StartRecord \/ StatLine \/ EmitRecord \/ ParseReturn

NextParse == ParseStep

SpecParse == InitParse /\ [][NextParse]_vars

\* short texts for following every scan to its end: a header, a line with
\* '|' and fewer than 4 fields, statistics lines with 3 and with 2 fields, a
\* header-shaped line with a tab, the empty line
ScanLines ==
    { <<"h", "|", "a", "|", "d", "|", "s">>,
      <<"p", "|", "q">>,
      <<"1", "\t", "2", "\t", "f">>,
      <<"4", "\t", "4">>,
      <<"\t", "|", "|", "|">>,
      <<>> }
ScanTexts == {JoinLines(ls) : ls \in SeqsUpTo(ScanLines, MaxScanLines)}

InitScan ==
    /\ ppc = "start"
    /\ text \in ScanTexts
    /\ lines = << >>
    /\ i = 1
    /\ commits = << >>
    /\ cur = None
    /\ pass = 1
    /\ first = << >>
    /\ IdleResolve
    /\ IdleExtract
    /\ IdleAnalysis

\* the function is one sequential thread: the interpreter always takes the
\* next step of a call that has not returned
SpecParseFair == InitScan /\ [][NextParse]_vars /\ WF_vars(NextParse)

NextRoundTrip == ParseStep \/ Reserialize

SpecRoundTrip == InitParse /\ [][NextRoundTrip]_vars

(***************************************************************************)
(* ClaudeAnalyzer._prioritize_bugs                                         *)
(***************************************************************************)
\* A markdown text is held as [pad, body]: pad times the letter "x"
\* followed by the characters of body. No keyword has an "x", so a keyword
\* is in the text exactly when it is in body.
TextLen(t) == t.pad + Len(t.body)

UpperCase == <<"A", "B", "C", "D", "E", "F", "G", "H", "I", "J", "K", "L", "M", "N", "O", "P", "Q", "R", "S", "T", "U", "V", "W", "X", "Y", "Z">>
LowerCase == <<"a", "b", "c", "d", "e", "f", "g", "h", "i", "j", "k", "l", "m", "n", "o", "p", "q", "r", "s", "t", "u", "v", "w", "x", "y", "z">>
\* str.lower() on one character
LowerChar(c) ==
    IF \E k \in 1..Len(UpperCase) : UpperCase[k] = c
    THEN LowerCase[CHOOSE k \in 1..Len(UpperCase) : UpperCase[k] = c]
    ELSE c
\* line 563: bug_info['markdown'].lower()
Lower(t) == [t EXCEPT !.body = [k \in 1..Len(t.body) |-> LowerChar(t.body[k])]]

\* word in markdown
InText(word, t) == Contains(word, t.body)

\* lines 567-577: the keyword families
HighWords == {<<"s", "e", "c", "u", "r", "i", "t", "y">>, <<"c", "r", "a", "s", "h">>, <<"c", "r", "i", "t", "i", "c", "a", "l">>, <<"r", "e", "g", "r", "e", "s", "s", "i", "o", "n">>}
PerfWords == {<<"p", "e", "r", "f", "o", "r", "m", "a", "n", "c", "e">>, <<"m", "e", "m", "o", "r", "y">>, <<"l", "e", "a", "k">>, <<"s", "t", "a", "r", "t", "u", "p">>}
FeatureWords == {<<"f", "e", "a", "t", "u", "r", "e">>, <<"i", "m", "p", "l", "e", "m", "e", "n", "t">>, <<"s", "u", "p", "p", "o", "r", "t">>}
UiWords == {<<"u", "i">>, <<"i", "n", "t", "e", "r", "f", "a", "c", "e">>, <<"d", "e", "v", "t", "o", "o", "l", "s">>}
SeverityWords == {<<"s", "e", "v", "e", "r", "i", "t", "y", ":", " ", "c", "r", "i", "t", "i", "c", "a", "l">>, <<"s", "e", "v", "e", "r", "i", "t", "y", ":", " ", "m", "a", "j", "o", "r">>}

\* lines 568, 570, 572, 574, 578: the points of the families; line 581: the
\* divisor of the length and the cap of the length bonus
HighPoints == 10
PerfPoints == 8
FeaturePoints == 6
UiPoints == 4
SeverityPoints == 5
LengthDivisor == 1000
LengthCap == 3

AnyIn(words, t) == \E w \in words : InText(w, t)
Min(a, b) == IF a <= b THEN a ELSE b

\* bug_priority_score with "security" missing from the first family
ScoreWithoutSecurity(t) ==
    LET markdown == Lower(t)
    IN  LengthDivisor *
          ( (IF AnyIn(HighWords \ {<<"s", "e", "c", "u", "r", "i", "t", "y">>}, markdown) THEN HighPoints ELSE 0)
          + (IF AnyIn(PerfWords, markdown) THEN PerfPoints ELSE 0)
          + (IF AnyIn(FeatureWords, markdown) THEN FeaturePoints ELSE 0)
          + (IF AnyIn(UiWords, markdown) THEN UiPoints ELSE 0)
          + (IF AnyIn(SeverityWords, markdown) THEN SeverityPoints ELSE 0) )
        + Min(TextLen(markdown), LengthDivisor * LengthCap)

\* lines 562-583: bug_priority_score, in units of 1/LengthDivisor, so that
\* min(len(markdown) / 1000, 3) is Min(len, 1000 * 3)
BugPriorityScore(t) ==
    LET markdown == Lower(t)
    IN  LengthDivisor *
          ( (IF AnyIn(HighWords, markdown) THEN HighPoints ELSE 0)
          + (IF AnyIn(PerfWords, markdown) THEN PerfPoints ELSE 0)
          + (IF AnyIn(FeatureWords, markdown) THEN FeaturePoints ELSE 0)
          + (IF AnyIn(UiWords, markdown) THEN UiPoints ELSE 0)
          + (IF AnyIn(SeverityWords, markdown) THEN SeverityPoints ELSE 0) )
        + Min(TextLen(markdown), LengthDivisor * LengthCap)

\* InsertByKey putting a record before the records of the same key
InsertBeforeEqual(sorted, k, ks) ==
    LET before == {p \in 1..Len(sorted) : ks[sorted[p]] > ks[k]}
    IN  SubSeq(sorted, 1, Cardinality(before)) \o <<k>>
        \o SubSeq(sorted, Cardinality(before) + 1, Len(sorted))

\* one record placed into a list ordered by key, largest first: after the
\* records whose key is not smaller (sorted keeps equal keys in input order)
InsertByKey(sorted, k, ks) ==
    LET before == {p \in 1..Len(sorted) : ks[sorted[p]] >= ks[k]}
    IN  SubSeq(sorted, 1, Cardinality(before)) \o <<k>>
        \o SubSeq(sorted, Cardinality(before) + 1, Len(sorted))

\* line 585: sorted(range, key=ks, reverse=True) as a list of positions
RECURSIVE SortedPositions(_, _)
SortedPositions(n, ks) ==
    IF n = 0 THEN << >> ELSE InsertByKey(SortedPositions(n - 1, ks), n, ks)

\* the texts of the bug records: with and without " security", short and
\* long enough for the length bonus to reach its cap
Security == <<"s", "e", "c", "u", "r", "i", "t", "y">>
SpaceSecurity == <<" ">> \o Security
BaseBodies == {<< >>, <<"c", "r", "a", "s", "h">>, <<"u", "i">>, <<"L", "e", "a", "k">>, <<"s", "e", "v", "e", "r", "i", "t", "y", ":", " ", "m", "a", "j", "o", "r", " ", "s", "u", "p", "p", "o", "r", "t">>}
BugBodies == BaseBodies \cup {b \o SpaceSecurity : b \in BaseBodies}
Pads == {0, 2995, 3000}
BugTexts == {[pad |-> p, body |-> b] : p \in Pads, b \in BugBodies}

\* records with the ids 1, 2, ... in input order
BugLists ==
    {[k \in 1..Len(ts) |-> [id |-> k, markdown |-> ts[k]]] : ts \in SeqsUpTo(BugTexts, MaxBugs)}

InitPrioritize ==
    /\ spc = "keys"
    /\ bugs_markdown \in BugLists
    /\ keys = << >>
    /\ prioritized = << >>
    /\ IdleResolve
    /\ IdleExtract
    /\ IdleParse
    /\ IdleAggregate
    /\ IdlePipeline

\* line 585: sorted calls the key function once for each record, in order
ComputeKey ==
    /\ spc = "keys"
    /\ Len(keys) < Len(bugs_markdown)
    /\ keys' = Append(keys, BugPriorityScore(bugs_markdown[Len(keys) + 1].markdown))
    /\ UNCHANGED <<spc, bugs_markdown, prioritized, resolveVars, extractVars, parseVars, aggVars, pipeVars>>

\* line 585: the records in the order of their keys
SortBugs ==
    /\ spc = "keys"
    /\ Len(keys) = Len(bugs_markdown)
    /\ prioritized' = [p \in 1..Len(bugs_markdown) |->
                          bugs_markdown[SortedPositions(Len(bugs_markdown), keys)[p]]]
    /\ spc' = "done"
    /\ UNCHANGED <<bugs_markdown, keys, resolveVars, extractVars, parseVars, aggVars, pipeVars>>

NextPrioritize == ComputeKey \/ SortBugs

SpecPrioritize == InitPrioritize /\ [][NextPrioritize]_vars

(***************************************************************************)
(* ClaudeAnalyzer._analyze_commit_patterns                                 *)
(***************************************************************************)
MaxCommits == 3

\* s.lower()
LowerStr(s) == [k \in 1..Len(s) |-> LowerChar(s[k])]

\* a dict is a function on its keys
EmptyDict == [k \in {} |-> 0]
\* d[key] = d.get(key, 0) + 1
Increment(d, key) ==
    [k \in (DOMAIN d) \cup {key} |->
        IF k = key THEN (IF key \in DOMAIN d THEN d[key] ELSE 0) + 1 ELSE d[k]]

\* sum(...) of a list of numbers
RECURSIVE Sum(_)
Sum(ns) == IF ns = << >> THEN 0 ELSE ns[1] + Sum(Tail(ns))

\* lines 441-449: the dict before the loop
InitialStats(cs) ==
    [total_commits |-> Len(cs),
     total_files_changed |-> Sum([k \in 1..Len(cs) |-> Len(cs[k].files_changed)]),
     total_insertions |-> Sum([k \in 1..Len(cs) |-> cs[k].insertions]),
     total_deletions |-> Sum([k \in 1..Len(cs) |-> cs[k].deletions]),
     contributors |-> {cs[k].author : k \in 1..Len(cs)},
     file_types |-> EmptyDict,
     components |-> EmptyDict]

\* CountFileType without lower()
CountFileTypeNoLower(st, file_path) ==
    IF Contains(<<".">>, file_path)
    THEN LET parts == Split(file_path, ".", -1)
         IN  [st EXCEPT !.file_types = Increment(@, parts[Len(parts)])]
    ELSE st

\* lines 455-457
CountFileType(st, file_path) ==
    IF Contains(<<".">>, file_path)
    THEN LET parts == Split(file_path, ".", -1)
         IN  [st EXCEPT !.file_types = Increment(@, LowerStr(parts[Len(parts)]))]
    ELSE st

\* lines 460-462
CountComponent(st, file_path) ==
    IF Contains(<<"/">>, file_path)
    THEN [st EXCEPT !.components = Increment(@, Split(file_path, "/", -1)[1])]
    ELSE st

\* lines 453-462: the loop over the paths of one commit
RECURSIVE CountPaths(_, _)
CountPaths(st, files) ==
    IF files = << >> THEN st
    ELSE CountPaths(CountComponent(CountFileType(st, files[1]), files[1]), Tail(files))

\* the paths of the commits: with and without "." and "/", an upper-case
\* extension, a "." before a "/", a leading "."
PathSrcPy == <<"s", "r", "c", "/", "b", ".", "P", "Y">>
PathPy == <<"c", ".", "p", "y">>
PathReadme == <<"R", "E", "A", "D", "M", "E">>
PathDotDir == <<"d", "/", "e", ".", "f", "/", "g">>
PathHidden == <<".", "h", "i", "d">>
PathTarGz == <<"s", "r", "c", "/", "x", ".", "t", "a", "r", ".", "g", "z">>
FileLists ==
    {<< >>, <<PathSrcPy, PathPy>>, <<PathReadme, PathSrcPy>>,
     <<PathDotDir, PathHidden, PathDotDir>>, <<PathTarGz>>}
Authors == {[author |-> "A", insertions |-> 2, deletions |-> 1],
            [author |-> "B", insertions |-> 0, deletions |-> 3]}
CommitRecords ==
    {[author |-> a.author, files_changed |-> fs,
      insertions |-> a.insertions, deletions |-> a.deletions] : a \in Authors, fs \in FileLists}
CommitLists == SeqsUpTo(CommitRecords, MaxCommits)

InitAggregate ==
    /\ apc = "stats"
    /\ commit_list \in CommitLists
    /\ commit_idx = 0
    /\ stats = None
    /\ IdleResolve
    /\ IdleExtract
    /\ IdleParse
    /\ IdlePrioritize
    /\ IdlePipeline

\* lines 441-449
BuildStats ==
    /\ apc = "stats"
    /\ stats' = Some(InitialStats(commit_list))
    /\ apc' = "loop"
    /\ UNCHANGED <<commit_list, commit_idx, resolveVars, extractVars, parseVars, prioVars, pipeVars>>

\* lines 452-462: one turn of the loop over the commits
AnalyzeCommit ==
    /\ apc = "loop"
    /\ commit_idx < Len(commit_list)
    /\ stats' = Some(CountPaths(stats[1], commit_list[commit_idx + 1].files_changed))
    /\ commit_idx' = commit_idx + 1
    /\ UNCHANGED <<apc, commit_list, resolveVars, extractVars, parseVars, prioVars, pipeVars>>

\* line 464
ReturnStats ==
    /\ apc = "loop"
    /\ commit_idx = Len(commit_list)
    /\ apc' = "done"
    /\ UNCHANGED <<commit_list, commit_idx, stats, resolveVars, extractVars, parseVars, prioVars, pipeVars>>

NextAggregate == BuildStats \/ AnalyzeCommit \/ ReturnStats

SpecAggregate == InitAggregate /\ [][NextAggregate]_vars

(***************************************************************************)
(* GitAnalyzer.get_commits_for_release and                                 *)
(* FirefoxReleaseAnalyzer.analyze_release                                  *)
(***************************************************************************)
\* the two ways get_release_tags raises
FatalOutcomes == {"InvalidVersion", "UnresolvableVersion"}

\* what git log and _parse_git_log give for a resolved range: the records,
\* of which analyze_release reads bug_ids only
ReleaseCommitLists ==
    {<< >>,
     <<[bug_ids |-> <<1234567>>]>>,
     <<[bug_ids |-> << >>], [bug_ids |-> <<1234567, 1500000>>]>>}
\* what the milestone search of get_bugs_for_release gives
MilestoneBugSets == {{}, {1500000}}

\* the repository has no tag or one tag
PipelineTagLists == {ts \in TagLists : Len(ts) <= 1}

InitPipeline ==
    /\ rpc = "parse_version"
    /\ version \in Versions
    /\ tags \in PipelineTagLists
    /\ target_tag = << >>
    /\ prev_version = << >>
    /\ end_tag = None
    /\ start_tag = None
    /\ outcome = "none"
    /\ fpc = "get_commits"
    /\ release_commits = << >>
    /\ bug_ids_from_commits = {}
    /\ release_bugs = {}
    /\ result = "none"
    /\ IdleExtract
    /\ IdleParse
    /\ IdlePrioritize
    /\ IdleAggregate

\* lines 289-305: get_release_tags returned; git log is run and parsed
GitLog ==
    /\ fpc = "get_commits"
    /\ rpc = "done"
    /\ outcome = "return"
    /\ release_commits' \in ReleaseCommitLists
    /\ fpc' = "collect_ids"
    /\ UNCHANGED <<bug_ids_from_commits, release_bugs, result, resolveVars, extractVars, parseVars, prioVars, aggVars>>

\* lines 306-308: any exception of the try block, the ValueError of
\* get_release_tags and the CalledProcessError of git log alike, is
\* printed and [] is returned
CatchException ==
    /\ fpc = "get_commits"
    /\ rpc = "done"
    /\ outcome \in FatalOutcomes \cup {"return"}
    /\ release_commits' = << >>
    /\ fpc' = "collect_ids"
    /\ UNCHANGED <<bug_ids_from_commits, release_bugs, result, resolveVars, extractVars, parseVars, prioVars, aggVars>>

\* lines 604-607
CollectBugIds ==
    /\ fpc = "collect_ids"
    /\ bug_ids_from_commits' =
          UNION {{release_commits[k].bug_ids[j] : j \in 1..Len(release_commits[k].bug_ids)} :
                    k \in 1..Len(release_commits)}
    /\ fpc' = "fetch_bugs"
    /\ UNCHANGED <<release_commits, release_bugs, result, resolveVars, extractVars, parseVars, prioVars, aggVars>>

\* lines 610-625: the bugs of the milestone, and those of the ids found in
\* the commits that bmo-to-md answers for
FetchBugs ==
    /\ fpc = "fetch_bugs"
    /\ \E milestone_bugs \in MilestoneBugSets, commit_bugs \in SUBSET bug_ids_from_commits :
           release_bugs' = milestone_bugs \cup commit_bugs
    /\ fpc' = "report"
    /\ UNCHANGED <<release_commits, bug_ids_from_commits, result, resolveVars, extractVars, parseVars, prioVars, aggVars>>

\* lines 627-630
GenerateReport ==
    /\ fpc = "report"
    /\ result' = "report"
    /\ fpc' = "done"
    /\ UNCHANGED <<release_commits, bug_ids_from_commits, release_bugs, resolveVars, extractVars, parseVars, prioVars, aggVars>>

NextPipeline ==
    \/ ParseVersion \/ FindEnd \/ FindStart
    \/ GitLog \/ CatchException \/ CollectBugIds \/ FetchBugs \/ GenerateReport

SpecPipeline == InitPipeline /\ [][NextPipeline]_vars

(***************************************************************************)
(* Properties of get_release_tags                                          *)
(***************************************************************************)
\* the fields of a string between the occurrences of a separator character,
\* by the positions of the separator
Occurrences(v, c) == {k \in 1..Len(v) : v[k] = c}
NthOccurrence(v, c, n) ==
    IF n = 0 THEN 0
    ELSE IF n > Cardinality(Occurrences(v, c)) THEN Len(v) + 1
    ELSE CHOOSE k \in Occurrences(v, c) : Cardinality({j \in Occurrences(v, c) : j < k}) = n - 1
FieldOf(v, c, n) == SubSeq(v, NthOccurrence(v, c, n - 1) + 1, NthOccurrence(v, c, n) - 1)
NumFields(v) == Cardinality(Occurrences(v, ".")) + 1
Field(v, n) == FieldOf(v, ".", n)

TagPrefix == <<"F", "I", "R", "E", "F", "O", "X", "_">>
TagSuffix == <<"_", "R", "E", "L", "E", "A", "S", "E">>
DotsToUnderscores(v) == [k \in 1..Len(v) |-> IF v[k] = "." THEN "_" ELSE v[k]]

TagsContaining(t) == {k \in 1..Len(tags) : Contains(t, tags[k])}
FirstOf(S) == CHOOSE k \in S : \A j \in S : k <= j

\* C1 (as stated): if some tag contains the computed target tag, resolve
\* returns the first such tag of the universe, verbatim, as endRef; if none
\* does, resolve fails with UnresolvableVersion and returns no boundary.
C1_Original ==
    rpc = "done" =>
        IF TagsContaining(target_tag) # {}
        THEN outcome = "return" /\ end_tag = Some(tags[FirstOf(TagsContaining(target_tag))])
        ELSE outcome = "UnresolvableVersion" /\ end_tag = None /\ start_tag = None

\* C1 (amended): the same, for every call that does not fail with
\* InvalidVersion (the int() conversions of lines 73, 75, 80 come first).
C1_EndRefFirstMatch ==
    (rpc = "done" /\ outcome # "InvalidVersion") =>
        IF TagsContaining(target_tag) # {}
        THEN outcome = "return" /\ end_tag = Some(tags[FirstOf(TagsContaining(target_tag))])
        ELSE outcome = "UnresolvableVersion" /\ end_tag = None /\ start_tag = None

\* two different tags contain the target and the first one, a vendor-suffixed
\* tag, was returned
C1_Witness ==
    /\ rpc = "done" /\ outcome = "return"
    /\ Cardinality(TagsContaining(target_tag)) = 2
    /\ tags[1] # tags[2]
    /\ tags[1] # target_tag
    /\ end_tag = Some(tags[1])

\* C2: target tag and previous version by the number of '.'-separated parts:
\* M.m.p.. -> FIREFOX_M_m_p_RELEASE, "M.m"; M.0 -> FIREFOX_M_0_RELEASE,
\* "(M-1).0"; M.n, n>0 -> FIREFOX_M_n_RELEASE, "M.(n-1)"; M ->
\* FIREFOX_M_0_RELEASE, "(M-1).0".
C2_TargetAndPrevious ==
    (rpc # "parse_version" /\ outcome # "InvalidVersion") =>
        LET n == NumFields(version)
            M == Field(version, 1)
            m == Field(version, 2)
            p == Field(version, 3)
        IN  /\ n >= 3 =>
                /\ target_tag = TagPrefix \o M \o <<"_">> \o m \o <<"_">> \o p \o TagSuffix
                /\ prev_version = M \o <<".">> \o m
            /\ (n = 2 /\ m = <<"0">>) =>
                /\ target_tag = TagPrefix \o M \o <<"_", "0">> \o TagSuffix
                /\ prev_version = PyStr(PyInt(M).val - 1) \o <<".", "0">>
                /\ PyInt(Field(prev_version, 1)).val = PyInt(M).val - 1
                /\ Field(prev_version, 2) = <<"0">>
            /\ (n = 2 /\ PyInt(m).ok /\ PyInt(m).val > 0) =>
                /\ target_tag = TagPrefix \o M \o <<"_">> \o m \o TagSuffix
                /\ Field(prev_version, 1) = M
                /\ Field(prev_version, 2) = PyStr(PyInt(m).val - 1)
                /\ PyInt(Field(prev_version, 2)).val = PyInt(m).val - 1
            /\ n = 1 =>
                /\ target_tag = TagPrefix \o M \o <<"_", "0">> \o TagSuffix
                /\ prev_version = PyStr(PyInt(M).val - 1) \o <<".", "0">>
                /\ PyInt(Field(prev_version, 1)).val = PyInt(M).val - 1

\* version "131.0" gave target FIREFOX_131_0_RELEASE and previous "130.0"
C2_Witness ==
    /\ rpc = "done"
    /\ version = <<"1", "3", "1", ".", "0">>
    /\ target_tag = TagPrefix \o <<"1", "3", "1", "_", "0">> \o TagSuffix
    /\ prev_version = <<"1", "3", "0", ".", "0">>

\* the previous-release pattern, FIREFOX_<prev_version with _ for .>_RELEASE
PrevPattern == TagPrefix \o DotsToUnderscores(prev_version) \o TagSuffix

\* C3: whenever the end tag resolves, startRef is the tag exactly equal to
\* the previous-version pattern; a tag that only contains the pattern is
\* never chosen; with no equal tag the result is (absent, endRef), no error.
C3_StartRefExact ==
    (rpc = "done" /\ ~Falsy(end_tag)) =>
        /\ outcome = "return"
        /\ IF \E k \in 1..Len(tags) : tags[k] = PrevPattern
           THEN start_tag = Some(PrevPattern)
           ELSE start_tag = None
        /\ version = <<"1", "3", "1", ".", "0">> =>
               PrevPattern = TagPrefix \o <<"1", "3", "0", "_", "0">> \o TagSuffix

\* the end tag resolved, a vendor-prefixed tag contains the pattern, and
\* startRef is absent
C3_Witness ==
    /\ rpc = "done" /\ outcome = "return"
    /\ \E k \in 1..Len(tags) : Contains(PrevPattern, tags[k])
    /\ start_tag = None

\* C4 (as stated): a non-numeric major, minor or patch token makes resolve
\* fail with InvalidVersion, whatever the tags are.
C4_InvalidVersion ==
    (rpc = "done"
       /\ \E n \in 1..3 : n <= NumFields(version) /\ ~PyInt(Field(version, n)).ok)
    => outcome = "InvalidVersion"

(***************************************************************************)
(* Properties of _extract_bug_ids                                          *)
(***************************************************************************)
\* the runs of digits m[a..b] that one of the three patterns captures: the
\* run goes on to the last digit, and it follows "Bug " or "bug ", or
\* follows "#", or is a whole run of 6 or more digits
CapturedRuns(m) ==
    {r \in (1..Len(m)) \X (1..Len(m)) :
        /\ r[1] <= r[2]
        /\ \A k \in r[1]..r[2] : IsDigit(m[k])
        /\ ~IsDigit(CharAt(m, r[2] + 1))
        /\ \/ /\ r[1] >= 5
              /\ m[r[1] - 4] \in {"B", "b"} /\ m[r[1] - 3] = "u"
              /\ m[r[1] - 2] = "g" /\ m[r[1] - 1] = " "
           \/ r[1] >= 2 /\ m[r[1] - 1] = "#"
           \/ r[2] - r[1] + 1 >= 6 /\ (r[1] = 1 \/ ~IsDigit(m[r[1] - 1]))}

Example1 == <<"B", "u", "g", " ", "1", "2", "3", "4", "5", "6", "7", " ", "a", "n", "d", " ", "b", "u", "g", " ", "4", "2">>
Example2 == <<"s", "e", "e", " ", "#", "1", "5", "0", "0", "0", "0", "0", " ", "a", "n", "d", " ", "1", "5", "0", "0", "0", "0", "0">>

\* C10: extract returns a collection without duplicates whose elements lie
\* in [100000, 9999999] and are values of digit runs captured by one of the
\* three patterns; extract("Bug 1234567 and bug 42") = {1234567} and
\* extract("see #1500000 and 1500000") = {1500000}.
C10_ExtractedIds ==
    epc = "done" =>
        /\ \A a, b \in 1..Len(bug_result) : a # b => bug_result[a] # bug_result[b]
        /\ \A a \in 1..Len(bug_result) :
              /\ 100000 <= bug_result[a] /\ bug_result[a] <= 9999999
              /\ \E r \in CapturedRuns(message) :
                    DigitsValue(SubSeq(message, r[1], r[2])) = bug_result[a]
        /\ message = Example1 => bug_result = <<1234567>>
        /\ message = Example2 => bug_result = <<1500000>>

\* "see #1500000 and 1500000": the number was matched three times and is
\* returned once
C10_Witness ==
    /\ epc = "done"
    /\ message = Example2
    /\ Len(bug_ids) = 3
    /\ bug_result = <<1500000>>

(***************************************************************************)
(* Properties of _parse_git_log                                            *)
(***************************************************************************)
\* a line with a tab; a line with '|' that splits on '|' into 4 fields
HasTab(l) == Occurrences(l, "\t") # {}
HeaderShaped(l) == Cardinality(Occurrences(l, "|")) >= 3

\* the summary field: all that follows the third '|'
SummaryOf(l) == SubSeq(l, NthOccurrence(l, "|", 3) + 1, Len(l))

\* the lines of ls that the scan takes as header lines: header-shaped lines
\* that do not lie in the unbroken run of tab lines after an earlier one
RecordStarts(ls) ==
    LET starts[k \in 0..Len(ls)] ==
            IF k = 0 THEN FALSE
            ELSE /\ HeaderShaped(ls[k])
                 /\ ~(/\ HasTab(ls[k])
                      /\ \E h \in 1..(k - 1) :
                            starts[h] /\ \A j \in (h + 1)..k : HasTab(ls[j]))
    IN  {k \in 1..Len(ls) : starts[k]}

\* the n-th smallest element of a set of numbers
NthOf(S, n) == CHOOSE k \in S : Cardinality({j \in S : j < k}) = n - 1

\* the last line of the unbroken run of tab lines that follows line h
RECURSIVE RunEnd(_, _)
RunEnd(ls, h) == IF h + 1 <= Len(ls) /\ HasTab(ls[h + 1]) THEN RunEnd(ls, h + 1) ELSE h

\* a statistics line with three or more fields whose counts are numbers or '-'
CountField(f) == f = <<"-">> \/ PyInt(f).ok
CountValue(f) == IF f = <<"-">> THEN 0 ELSE PyInt(f).val
WellFormedStat(l) ==
    /\ Cardinality(Occurrences(l, "\t")) >= 2
    /\ CountField(FieldOf(l, "\t", 1))
    /\ CountField(FieldOf(l, "\t", 2))

\* sums of the n-th field, and the paths, of the well-formed lines a..b
RECURSIVE RunSum(_, _, _, _)
RunSum(ls, a, b, n) ==
    IF a > b THEN 0
    ELSE (IF WellFormedStat(ls[a]) THEN CountValue(FieldOf(ls[a], "\t", n)) ELSE 0)
         + RunSum(ls, a + 1, b, n)
RECURSIVE RunPaths(_, _, _)
RunPaths(ls, a, b) ==
    IF a > b THEN << >>
    ELSE (IF WellFormedStat(ls[a]) THEN <<FieldOf(ls[a], "\t", 3)>> ELSE << >>)
         \o RunPaths(ls, a + 1, b)

Parsed == ppc = "done" /\ pass = 1

RecordsOfHeaders(S) ==
    /\ Len(commits) = Cardinality(S)
    /\ \A r \in 1..Len(commits) :
          LET l == lines[NthOf(S, r)]
          IN  /\ commits[r].hash = FieldOf(l, "|", 1)
              /\ commits[r].author = FieldOf(l, "|", 2)
              /\ commits[r].date = FieldOf(l, "|", 3)
              /\ commits[r].message = SummaryOf(l)

\* C6 (as stated): every line that contains '|' and splits into 4 fields
\* starts a record; the records are these lines' fields, in input order.
C6_Original ==
    Parsed => RecordsOfHeaders({k \in 1..Len(lines) : HeaderShaped(lines[k])})

\* C6 (amended): the same for every such line that is not consumed as a
\* statistics line, i.e. that has no tab or is not in the unbroken run of tab
\* lines after a header line.
C6_RecordPerHeader ==
    Parsed => RecordsOfHeaders(RecordStarts(lines))

\* two records in input order, the second with '|' kept in its summary,
\* and a header-shaped tab line between them that started no record
C6_Witness ==
    /\ Parsed
    /\ Len(lines) = 3
    /\ HeaderShaped(lines[2]) /\ HasTab(lines[2])
    /\ Len(commits) = 2
    /\ commits[2].message = <<"s", "|", "1", "2", "3", "4", "5", "6">>

\* C7 (as stated): every emitted record has insertions >= 0, deletions >= 0.
C7_NonNegative ==
    \A r \in 1..Len(commits) : commits[r].insertions >= 0 /\ commits[r].deletions >= 0

\* C8: a malformed statistics line inside a record changes nothing of the
\* record and does not end it; a well-formed line after it is accumulated
\* into the same record.
C8_MalformedSkipped ==
    [][(ppc = "inner" /\ i <= Len(lines) /\ HasTab(lines[i])) =>
          /\ ppc' = "inner" /\ i' = i + 1 /\ commits' = commits /\ cur' # None
          /\ IF WellFormedStat(lines[i])
             THEN /\ cur'[1].hash = cur[1].hash
                  /\ cur'[1].insertions = cur[1].insertions + CountValue(FieldOf(lines[i], "\t", 1))
                  /\ cur'[1].deletions = cur[1].deletions + CountValue(FieldOf(lines[i], "\t", 2))
                  /\ cur'[1].files_changed = Append(cur[1].files_changed, FieldOf(lines[i], "\t", 3))
             ELSE cur' = cur]_vars

\* a record whose run is a malformed line with one valid count, then a
\* well-formed line: only the latter is in the record
C8_Witness ==
    /\ Parsed
    /\ Len(lines) = 3
    /\ lines[2] = <<"7", "\t", "x", "\t", "m">>
    /\ WellFormedStat(lines[3])
    /\ Len(commits) = 1
    /\ commits[1].files_changed = <<FieldOf(lines[3], "\t", 3)>>
    /\ commits[1].insertions = CountValue(FieldOf(lines[3], "\t", 1))

\* equality of record lists, the order within bug_ids left aside
SameIds(x, y) == Len(x) = Len(y) /\ {x[k] : k \in 1..Len(x)} = {y[k] : k \in 1..Len(y)}
SameRecords(xs, ys) ==
    /\ Len(xs) = Len(ys)
    /\ \A r \in 1..Len(xs) :
          /\ [xs[r] EXCEPT !.bug_ids = << >>] = [ys[r] EXCEPT !.bug_ids = << >>]
          /\ SameIds(xs[r].bug_ids, ys[r].bug_ids)

Reparsed == ppc = "done" /\ pass = 2

\* C9 (as stated): for every R = parse(x), parsing the serialization of R
\* yields R.
C9_Original == Reparsed => SameRecords(commits, first)

\* C9 (amended): the same when the serialization of R neither begins nor
\* ends with whitespace and no hash, author, date or summary of R has a tab.
SerializationClean ==
    /\ Strip(text) = text
    /\ \A r \in 1..Len(first) :
          ~HasTab(first[r].hash) /\ ~HasTab(first[r].author)
          /\ ~HasTab(first[r].date) /\ ~HasTab(first[r].message)
C9_RoundTrip == (Reparsed /\ SerializationClean) => SameRecords(commits, first)

\* two records, one with paths and nonzero totals, came back the same
C9_Witness ==
    /\ Reparsed /\ SerializationClean
    /\ Len(first) = 2
    /\ \E r \in 1..2 : Len(first[r].files_changed) >= 1 /\ first[r].insertions # first[r].deletions
    /\ SameRecords(commits, first)

(***************************************************************************)
(* Properties of _prioritize_bugs                                          *)
(***************************************************************************)
Prioritized == spc = "done"
IdAt(p) == prioritized[p].id

\* C11: prioritize returns a permutation of its input, ordered by computed
\* score descending; records of identical score keep their input order.
C11_StableDescending ==
    Prioritized =>
        /\ Len(prioritized) = Len(bugs_markdown)
        /\ {IdAt(p) : p \in 1..Len(prioritized)} = 1..Len(bugs_markdown)
        /\ \A p \in 1..Len(prioritized) : prioritized[p] = bugs_markdown[IdAt(p)]
        /\ \A p, q \in 1..Len(prioritized) :
              p < q => /\ keys[IdAt(p)] >= keys[IdAt(q)]
                       /\ keys[IdAt(p)] = keys[IdAt(q)] => IdAt(p) < IdAt(q)

\* two records of different text and identical score came out in input order
C11_Witness ==
    /\ Prioritized
    /\ Len(bugs_markdown) = 2
    /\ bugs_markdown[1].markdown # bugs_markdown[2].markdown
    /\ keys[1] = keys[2]
    /\ prioritized = bugs_markdown

\* the text t with the word "security" added at its end
WithSecurity(t) == [t EXCEPT !.body = @ \o <<" ", "s", "e", "c", "u", "r", "i", "t", "y">>]
HasWord(w, t) == Contains(w, Lower(t).body)
HasSecurity(t) == HasWord(<<"s", "e", "c", "u", "r", "i", "t", "y">>, t)
HasOtherHighWord(t) ==
    \/ HasWord(<<"c", "r", "a", "s", "h">>, t)
    \/ HasWord(<<"c", "r", "i", "t", "i", "c", "a", "l">>, t)
    \/ HasWord(<<"r", "e", "g", "r", "e", "s", "s", "i", "o", "n">>, t)
\* the scored records a, b where b is a with "security" added
SecurityPairs ==
    {ab \in (1..Len(keys)) \X (1..Len(keys)) :
        /\ ~HasSecurity(bugs_markdown[ab[1]].markdown)
        /\ bugs_markdown[ab[2]].markdown = WithSecurity(bugs_markdown[ab[1]].markdown)}

\* C12 (as stated): a text with "security" added scores strictly higher
\* than the text without it, also when the text has another word of the +10
\* family and when it is long enough for the length bonus to be capped.
C12_Original ==
    \A ab \in SecurityPairs : keys[ab[2]] > keys[ab[1]]

\* C12 (amended): strictly higher unless the text already has another word
\* of the +10 family and is 3000 or more characters long; then the scores
\* are equal.
C12_SecurityScoresHigher ==
    \A ab \in SecurityPairs :
        IF HasOtherHighWord(bugs_markdown[ab[1]].markdown)
           /\ TextLen(bugs_markdown[ab[1]].markdown) >= 3000
        THEN keys[ab[2]] = keys[ab[1]]
        ELSE keys[ab[2]] > keys[ab[1]]

\* a text of 3000 characters without any keyword and the same text with
\* "security": ten points more
C12_Witness ==
    /\ Len(keys) = 2
    /\ <<1, 2>> \in SecurityPairs
    /\ ~HasOtherHighWord(bugs_markdown[1].markdown)
    /\ TextLen(bugs_markdown[1].markdown) >= 3000
    /\ keys[2] = keys[1] + 10000

(***************************************************************************)
(* Properties of _analyze_commit_patterns                                  *)
(***************************************************************************)
\* the path occurrences of the first n commits, duplicates kept
RECURSIVE PathsOfFirst(_)
PathsOfFirst(n) ==
    IF n = 0 THEN << >> ELSE PathsOfFirst(n - 1) \o commit_list[n].files_changed

HasSeparator(c, p) == \E k \in 1..Len(p) : p[k] = c
LastPositionOf(c, p) == CHOOSE k \in 1..Len(p) : p[k] = c /\ \A j \in (k + 1)..Len(p) : p[j] # c
FirstPositionOf(c, p) == CHOOSE k \in 1..Len(p) : p[k] = c /\ \A j \in 1..(k - 1) : p[j] # c
\* the lowercased substring after the last "."
ExtensionOf(p) == LowerStr(SubSeq(p, LastPositionOf(".", p) + 1, Len(p)))
\* the substring before the first "/"
ComponentOf(p) == SubSeq(p, 1, FirstPositionOf("/", p) - 1)

RECURSIVE SumOfCounts(_)
SumOfCounts(d) ==
    IF DOMAIN d = {} THEN 0
    ELSE LET k == CHOOSE x \in DOMAIN d : TRUE
         IN  d[k] + SumOfCounts([x \in (DOMAIN d) \ {k} |-> d[x]])

\* the buckets of d count the occurrences of paths with the separator c by key
BucketsCount(d, paths, c, KeyOf(_)) ==
    LET occurrences == {k \in 1..Len(paths) : HasSeparator(c, paths[k])}
    IN  /\ DOMAIN d = {KeyOf(paths[k]) : k \in occurrences}
        /\ \A key \in DOMAIN d :
              d[key] = Cardinality({k \in occurrences : KeyOf(paths[k]) = key})
        /\ SumOfCounts(d) = Cardinality(occurrences)

\* C13: after every turn of the loop the extension buckets and the component
\* buckets count, by key, the path occurrences seen so far that contain "."
\* and "/" (so each mapping sums to the number of such occurrences and a path
\* with neither changes no bucket); the totals are the number of commits, of
\* path occurrences, of inserted and deleted lines, the contributors are the
\* distinct authors, and the empty list gives zeros and empty mappings.
C13_AggregateFold ==
    apc \in {"loop", "done"} =>
        LET st == stats[1]
            seen == PathsOfFirst(commit_idx)
            all == PathsOfFirst(Len(commit_list))
        IN  /\ BucketsCount(st.file_types, seen, ".", ExtensionOf)
            /\ BucketsCount(st.components, seen, "/", ComponentOf)
            /\ st.total_commits = Len(commit_list)
            /\ st.total_files_changed = Len(all)
            /\ st.total_insertions = Sum([k \in 1..Len(commit_list) |-> commit_list[k].insertions])
            /\ st.total_deletions = Sum([k \in 1..Len(commit_list) |-> commit_list[k].deletions])
            /\ st.contributors = {commit_list[k].author : k \in 1..Len(commit_list)}
            /\ (apc = "done" => commit_idx = Len(commit_list))
            /\ (commit_list = << >> =>
                   /\ st.total_commits = 0 /\ st.total_files_changed = 0
                   /\ st.total_insertions = 0 /\ st.total_deletions = 0
                   /\ Cardinality(st.contributors) = 0
                   /\ DOMAIN st.file_types = {} /\ DOMAIN st.components = {})

\* three occurrences counted under "py", one of them written "PY", next to
\* a path with no separator and two authors
C13_Witness ==
    /\ apc = "done"
    /\ Len(commit_list) = 2
    /\ commit_list[1].files_changed = <<PathSrcPy, PathPy>>
    /\ commit_list[2].files_changed = <<PathReadme, PathSrcPy>>
    /\ Cardinality(stats[1].contributors) = 2
    /\ stats[1].file_types = [k \in {<<"p", "y">>} |-> 3]
    /\ stats[1].components = [k \in {<<"s", "r", "c">>} |-> 2]
    /\ stats[1].total_files_changed = 4

(***************************************************************************)
(* Termination of _parse_git_log                                           *)
(***************************************************************************)
AtLine == ppc = "outer" /\ i <= Len(lines)
HasBar(l) == Occurrences(l, "|") # {}

\* a record is appended or the index moves on: what a turn of the outer
\* loop does to i between two visits of line 316
OuterAdvances == (ppc = "outer" /\ ppc' # "done") => i' = i + 1
InnerKeeps == ppc = "inner" => i' >= i
\* a line with '|' and fewer than 4 fields is passed over
UndersizedSkipped ==
    (AtLine /\ HasBar(lines[i]) /\ ~HeaderShaped(lines[i])) =>
        (ppc' = "outer" /\ i' = i + 1 /\ commits' = commits /\ cur' = cur)

\* C14: the line scan returns and never raises; every turn of the outer
\* loop moves the line index forward, whether it opens a record or passes
\* over a line; a line with '|' and fewer than 4 fields adds no record; and
\* a text with no header-shaped line returns the empty list.
C14_ScanTerminates ==
    /\ <>(ppc = "done")
    /\ [](ppc # "raised")
    /\ [][OuterAdvances /\ InnerKeeps /\ UndersizedSkipped]_vars
    /\ []((ppc = "done" /\ \A k \in 1..Len(lines) : ~HeaderShaped(lines[k])) => commits = << >>)

\* a text of lines with '|' and fewer than 4 fields only, scanned to the
\* end with no record
C14_Witness ==
    /\ ppc = "done"
    /\ Len(lines) = 2
    /\ \A k \in 1..Len(lines) : HasBar(lines[k]) /\ ~HeaderShaped(lines[k])
    /\ i = Len(lines) + 1
    /\ commits = << >>

(***************************************************************************)
(* Properties of analyze_release                                           *)
(***************************************************************************)
\* C15: when get_release_tags has failed with InvalidVersion or
\* UnresolvableVersion, analyze_release does not go on to collect bug ids,
\* fetch bugs and generate a report as if the release had no commits.
C15_FailureSurfaced ==
    outcome \in FatalOutcomes =>
        /\ fpc \notin {"collect_ids", "fetch_bugs", "report", "done"}
        /\ result # "report"

(***************************************************************************)
(* The three patterns of _extract_bug_ids against the bare pattern alone   *)
(***************************************************************************)
\* the maximal runs of digits of m, as pairs of first and last position
MaximalDigitRuns(m) ==
    LET starts == {a \in 1..Len(m) : IsDigit(m[a]) /\ (a = 1 \/ ~IsDigit(m[a - 1]))}
    IN  {<<a, CHOOSE b \in a..Len(m) :
                 /\ \A k \in a..b : IsDigit(m[k])
                 /\ ~IsDigit(CharAt(m, b + 1))>> : a \in starts}

\* the values in [100000, 9999999] of the maximal runs of 6 or more digits
LongRunIds(m) ==
    {n \in {DigitsValue(SubSeq(m, r[1], r[2])) :
               r \in {q \in MaximalDigitRuns(m) : q[2] - q[1] + 1 >= 6}} :
        100000 <= n /\ n <= 9999999}

\* C16: no pattern ever adds an identifier that is not the value, within
\* [100000, 9999999], of a maximal run of 6 or more digits, and the returned
\* list holds, as a set, exactly those values: a number counts the same
\* with and without "bug ", "Bug " or "#" before it.
C16_PrefixIrrelevant ==
    epc \in {"patterns", "done"} =>
        LET long == LongRunIds(message)
        IN  /\ {bug_ids[a] : a \in 1..Len(bug_ids)} \subseteq long
            /\ epc = "done" => {bug_result[a] : a \in 1..Len(bug_result)} = long

\* "Bug 1234567 and bug 42": the first number was added by the "Bug "
\* pattern and by the bare pattern, the second by none
C16_Witness ==
    /\ epc = "done"
    /\ message = Example1
    /\ bug_ids = <<1234567, 1234567>>
    /\ bug_result = <<1234567>>

====
